---- MODULE Spec2Model ----
(***************************************************************************)
(* Model of the Droplet managed-resource controller                        *)
(* (pkg/controller/compute/droplet.go): the connector and the external     *)
(* client's Observe, Create, Update and Delete, run against a DigitalOcean *)
(* API that answers found / not-found / error, and a Kubernetes store that *)
(* may refuse an update.                                                   *)
(***************************************************************************)
EXTENDS Integers, Sequences, FiniteSets, TLC

VARIABLES
    identity,     \* the crossplane.io/external-name annotation, a string (sequence of characters)
    forProvider,  \* cr.Spec.ForProvider: the optional, provider-defaulted parameter
    atProvider,   \* cr.Status.AtProvider: ID, Status, CreationTimestamp
    conditions,   \* cr.Status.Conditions, keyed by condition type
    stored,       \* the copy of cr.Spec.ForProvider the API server holds
    droplets,     \* the provider's droplets, by ID
    nextID,       \* the ID the provider assigns to the next droplet
    client,       \* the dropletExternal returned by the last Connect, or NoClient
    lastOp,       \* the operation that ran last, the kind of record it was given, and
                  \* whether the operation before it was the same one
    result,       \* what that operation returned
    calls,        \* the provider and store calls that operation made
    pass,         \* the engine's position in the current pass, whether the record is being
                  \* deleted, and the conditions the engine last saved to the store
    other         \* a second record the engine reconciles, with its client and its pass,
                  \* held while the first is worked on; NoRecord when there is one record

vars == <<identity, forProvider, atProvider, conditions, stored, droplets, nextID,
          client, lastOp, result, calls, pass, other>>

----------------------------------------------------------------------------
(* Bounds *)

\* The provider hands out the IDs 1..MaxID.
MaxID == 2

----------------------------------------------------------------------------
(* Strings and strconv *)

Digits == {"0", "1", "2", "3", "4", "5", "6", "7", "8", "9"}

DigitVal(c) ==
    CASE c = "0" -> 0 [] c = "1" -> 1 [] c = "2" -> 2 [] c = "3" -> 3 [] c = "4" -> 4
      [] c = "5" -> 5 [] c = "6" -> 6 [] c = "7" -> 7 [] c = "8" -> 8 [] c = "9" -> 9

DigitChar(d) ==
    CASE d = 0 -> "0" [] d = 1 -> "1" [] d = 2 -> "2" [] d = 3 -> "3" [] d = 4 -> "4"
      [] d = 5 -> "5" [] d = 6 -> "6" [] d = 7 -> "7" [] d = 8 -> "8" [] d = 9 -> "9"

IsDigits(s) == Len(s) > 0 /\ \A i \in 1..Len(s) : s[i] \in Digits

RECURSIVE DigitsVal(_)
DigitsVal(s) ==
    IF s = <<>> THEN 0
    ELSE DigitsVal(SubSeq(s, 1, Len(s) - 1)) * 10 + DigitVal(s[Len(s)])

\* strconv.Atoi accepts an optional sign followed by one or more decimal digits.
Unsigned(s) == IF Len(s) > 0 /\ s[1] \in {"+", "-"} THEN Tail(s) ELSE s

AtoiOk(s) == IsDigits(Unsigned(s))

AtoiVal(s) ==
    IF Len(s) > 0 /\ s[1] = "-" THEN 0 - DigitsVal(Unsigned(s)) ELSE DigitsVal(Unsigned(s))

RECURSIVE ItoaNat(_)
ItoaNat(n) == IF n < 10 THEN <<DigitChar(n)>> ELSE ItoaNat(n \div 10) \o <<DigitChar(n % 10)>>

Itoa(n) == IF n < 0 THEN <<"-">> \o ItoaNat(0 - n) ELSE ItoaNat(n)

----------------------------------------------------------------------------
(* Errors *)

NoErr == [msg |-> "", cause |-> ""]

errNotDroplet == "managed resource is not a Droplet resource"
errGetDroplet == "cannot get droplet"
errDropletCreateFailed == "creation of Droplet resource has failed"
errDropletDeleteFailed == "deletion of Droplet resource has failed"
errDropletUpdate == "cannot update managed Droplet resource"

\* errors.New
New(msg) == [msg |-> msg, cause |-> ""]

\* errors.Wrap: a nil error stays nil.
Wrap(err, msg) == IF err = NoErr THEN NoErr ELSE [msg |-> msg, cause |-> err.msg]

\* An HTTP response is modelled by its status code; NilResponse is a nil *godo.Response.
NilResponse == "nil"
StatusOK == "200"
StatusAccepted == "202"
StatusNoContent == "204"
StatusNotFound == "404"
StatusServerError == "500"

\* do.IgnoreNotFound: the error, unless the response says the droplet is not there.
IgnoreNotFound(err, response) ==
    IF response # NilResponse /\ response = StatusNotFound THEN NoErr ELSE err

----------------------------------------------------------------------------
(* The record: a v1alpha1.Droplet *)

\* metadata.name of the record
ResourceName == <<"w", "e", "b">>

\* An optional parameter the user left out (a nil pointer).
Unset == "unset"
UserVPC == "vpc-user"
DefaultVPC == "vpc-default"

StatusNew == "new"
StatusActive == "active"
\* "off" stands for every status the controller has no condition for.
StatusOff == "off"

\* The zero DropletObservation
NoObservation == [ID |-> 0, Status |-> "", CreationTimestamp |-> 0]

\* Condition reasons; conditions are keyed by type, and a type that is not set holds NoCondition.
NoCondition == "none"
Creating == [type |-> "Ready", reason |-> "Creating"]
Available == [type |-> "Ready", reason |-> "Available"]
Deleting == [type |-> "Ready", reason |-> "Deleting"]

\* SetConditions replaces the condition of the same type and leaves the other types alone.
SetConditions(conds, c) == [conds EXCEPT ![c.type] = c.reason]

\* The external names a record may start with: none, the user's name for the
\* droplet, and numbers the user wrote (plain, zero-padded).
InitialNames == {<<>>, ResourceName, <<"2">>, <<"0", "1">>}

----------------------------------------------------------------------------
(* The provider: godo's DropletsService behind the API *)

NoDroplet == [ID |-> 0, Status |-> "absent", VPCUUID |-> Unset, Created |-> 0]

IsLive(id) == id \in DOMAIN droplets /\ droplets[id].Status # "absent"

Live == {id \in DOMAIN droplets : IsLive(id)}

\* What a failing call answers: a transport failure (no response) or a server error.
Failures == {[response |-> NilResponse, err |-> New("transport failure")],
             [response |-> StatusServerError, err |-> New("server error")]}

NotFound == [response |-> StatusNotFound, err |-> New("not found")]

\* Droplets.Get(ctx, id): (droplet, response, err)
GetAnswers(id) ==
    (IF IsLive(id)
     THEN {[observed |-> droplets[id], response |-> StatusOK, err |-> NoErr]}
     ELSE {[observed |-> NoDroplet, response |-> NotFound.response, err |-> NotFound.err]})
    \cup {[observed |-> NoDroplet, response |-> f.response, err |-> f.err] : f \in Failures}

\* The VPC the provider puts a new droplet in: the requested one, else its
\* default, which older regions do not report.
ProvisionedVPC(req) == IF req.VPCUUID # Unset THEN {req.VPCUUID} ELSE {DefaultVPC, Unset}

\* Droplets.Create(ctx, request): (droplet, response, err), and the provider's droplets after it.
\* The answers are: a new droplet; a failure; and no droplet with no error.
CreateAnswers(req) ==
    (IF nextID <= MaxID
     THEN {[droplet |-> d, nil |-> FALSE, response |-> StatusAccepted, err |-> NoErr,
            droplets |-> [droplets EXCEPT ![nextID] = d], nextID |-> nextID + 1] :
              d \in {[ID |-> nextID, Status |-> StatusNew, VPCUUID |-> v, Created |-> nextID] :
                       v \in ProvisionedVPC(req)}}
     ELSE {})
    \cup {[droplet |-> NoDroplet, nil |-> TRUE, response |-> f.response, err |-> f.err,
           droplets |-> droplets, nextID |-> nextID] : f \in Failures}
    \cup {[droplet |-> NoDroplet, nil |-> TRUE, response |-> StatusAccepted, err |-> NoErr,
           droplets |-> droplets, nextID |-> nextID]}

\* Droplets.Delete(ctx, id): (response, err), and the provider's droplets after it.
DeleteAnswers(id) ==
    (IF IsLive(id)
     THEN {[response |-> StatusNoContent, err |-> NoErr,
            droplets |-> [droplets EXCEPT ![id] = NoDroplet]]}
     ELSE {[response |-> NotFound.response, err |-> NotFound.err, droplets |-> droplets]})
    \cup {[response |-> f.response, err |-> f.err, droplets |-> droplets] : f \in Failures}

\* kube.Update(ctx, cr): the store takes the record or refuses it.
KubeUpdateAnswers == {NoErr, New("conflict")}

----------------------------------------------------------------------------
(* What an operation returns and what it did *)

NoClient == "none"
NoRecord == [held |-> FALSE]
BoundClient == "dropletExternal"

\* managed.ExternalObservation / ExternalCreation / ExternalUpdate and the error, in one shape.
Returned(exists, upToDate, assigned, err) ==
    [exists |-> exists, upToDate |-> upToDate, nameAssigned |-> assigned, err |-> err]

Zero == Returned(FALSE, FALSE, FALSE, NoErr)

NoCalls == [api |-> <<>>, kube |-> 0]

ApiCall(method, id, name, response) ==
    [method |-> method, id |-> id, name |-> name, response |-> response]

\* The state an operation starts from; an operation's outcome is this with its changes.
Cur ==
    [identity |-> identity, forProvider |-> forProvider, atProvider |-> atProvider,
     conditions |-> conditions, stored |-> stored, droplets |-> droplets,
     nextID |-> nextID, result |-> Zero, calls |-> NoCalls]

----------------------------------------------------------------------------
(* Observe *)

\* Mutant: a name that is no number is fetched as -1.
ExternalIDNegative(name) == IF AtoiOk(name) THEN AtoiVal(name) ELSE 0 - 1

\* The ID to fetch: the external name as a number, 0 when it is not one.
ExternalID(name) == IF AtoiOk(name) THEN AtoiVal(name) ELSE 0

\* Mutant: the not-found answer is wrapped like any other error.
ObserveErrorKeepsNotFound(err, response) == Wrap(err, errGetDroplet)

ObserveError(err, response) == Wrap(IgnoreNotFound(err, response), errGetDroplet)

\* docompute.LateInitializeSpec: fill the parameters the user left out from the droplet.
LateInitializeSpec(p, observed) ==
    [p EXCEPT !.VPCUUID = IF @ = Unset /\ observed.VPCUUID # Unset THEN observed.VPCUUID ELSE @]

ObservationOf(observed) ==
    [ID |-> observed.ID, Status |-> observed.Status, CreationTimestamp |-> observed.Created]

\* Mutant: a status without a condition of its own marks the record unavailable.
StatusConditionDefault(conds, status) ==
    CASE status = StatusNew -> SetConditions(conds, Creating)
      [] status = StatusActive -> SetConditions(conds, Available)
      [] OTHER -> SetConditions(conds, [type |-> "Ready", reason |-> "Unavailable"])

StatusCondition(conds, status) ==
    CASE status = StatusNew -> SetConditions(conds, Creating)
      [] status = StatusActive -> SetConditions(conds, Available)
      [] OTHER -> conds

\* Mutant: a droplet that is powered off counts as drift.
ObserveFoundDrift(o, observed) ==
    [o EXCEPT !.atProvider = ObservationOf(observed),
              !.conditions = StatusCondition(o.conditions, ObservationOf(observed).Status),
              !.result = Returned(TRUE, observed.Status # StatusOff, FALSE, NoErr)]

ObserveFound(o, observed) ==
    [o EXCEPT !.atProvider = ObservationOf(observed),
              !.conditions = StatusCondition(o.conditions, ObservationOf(observed).Status),
              !.result = Returned(TRUE, TRUE, FALSE, NoErr)]

\* Mutant: the record is saved after every fetch, changed or not.
ObserveLateInitAlwaysSaves(o, observed) ==
    LET merged == LateInitializeSpec(o.forProvider, observed) IN
    {IF k # NoErr
     THEN [o EXCEPT !.forProvider = merged, !.calls.kube = 1,
                    !.result = Returned(FALSE, FALSE, FALSE, Wrap(k, errDropletUpdate))]
     ELSE ObserveFound([o EXCEPT !.forProvider = merged, !.calls.kube = 1,
                                 !.stored = [identity |-> o.identity, forProvider |-> merged]],
                       observed)
       : k \in KubeUpdateAnswers}

ObserveLateInit(o, observed) ==
    LET merged == LateInitializeSpec(o.forProvider, observed) IN
    IF merged # o.forProvider
    THEN {IF k # NoErr
          THEN [o EXCEPT !.forProvider = merged, !.calls.kube = 1,
                         !.result = Returned(FALSE, FALSE, FALSE, Wrap(k, errDropletUpdate))]
          ELSE ObserveFound([o EXCEPT !.forProvider = merged, !.calls.kube = 1,
                                      !.stored = [identity |-> o.identity, forProvider |-> merged]],
                            observed)
            : k \in KubeUpdateAnswers}
    ELSE {ObserveFound(o, observed)}

\* Mutant: the observation is written before the error of the get is looked at.
ObserveGetWritesFirst(id, a) ==
    LET o == [Cur EXCEPT !.calls.api = <<ApiCall("get", id, <<>>, a.response)>>,
                         !.atProvider = ObservationOf(a.observed)] IN
    IF a.err # NoErr
    THEN {[o EXCEPT !.result = Returned(FALSE, FALSE, FALSE, ObserveError(a.err, a.response))]}
    ELSE ObserveLateInit(o, a.observed)

ObserveGet(id, a) ==
    LET o == [Cur EXCEPT !.calls.api = <<ApiCall("get", id, <<>>, a.response)>>] IN
    IF a.err # NoErr
    THEN {[o EXCEPT !.result = Returned(FALSE, FALSE, FALSE, ObserveError(a.err, a.response))]}
    ELSE ObserveLateInit(o, a.observed)

\* Mutant: no early return for an empty external name.
ObserveOutcomesAlwaysGet(isDroplet) ==
    IF ~isDroplet THEN {[Cur EXCEPT !.result = Returned(FALSE, FALSE, FALSE, New(errNotDroplet))]}
    ELSE UNION {ObserveGet(ExternalID(identity), a) : a \in GetAnswers(ExternalID(identity))}

ObserveOutcomes(isDroplet) ==
    IF ~isDroplet THEN {[Cur EXCEPT !.result = Returned(FALSE, FALSE, FALSE, New(errNotDroplet))]}
    ELSE IF identity = <<>> THEN {[Cur EXCEPT !.result = Returned(FALSE, FALSE, FALSE, NoErr)]}
    ELSE UNION {ObserveGet(ExternalID(identity), a) : a \in GetAnswers(ExternalID(identity))}

----------------------------------------------------------------------------
(* Create *)

\* docompute.GenerateDroplet: the create request, field by field.
GenerateDroplet(name, in) == [Name |-> name, Region |-> in.Region, VPCUUID |-> in.VPCUUID]

CreateName(name) == IF name = <<>> THEN ResourceName ELSE name

CreateFailed(err, nil) == err # NoErr \/ nil

CreateError(err) == Wrap(err, errDropletCreateFailed)

\* Mutant: the name is never set.
CreatedNameNever(name, id) == name

\* Mutant: the name is set whether or not it was empty.
CreatedNameAlways(name, id) == Itoa(id)

\* The external name after a create that returned droplet id.
CreatedName(name, id) == IF name = <<>> THEN Itoa(id) ELSE name

\* Mutant: the condition is not set before the call.
CreateBegunUnmarked(conds) == conds

\* The conditions once Create has begun, before the provider is called.
CreateBegun(conds) == SetConditions(conds, Creating)

CreateCall(o, req, a) ==
    LET p == [o EXCEPT !.calls.api = <<ApiCall("create", 0, req.Name, a.response)>>,
                       !.droplets = a.droplets, !.nextID = a.nextID] IN
    IF CreateFailed(a.err, a.nil)
    THEN [p EXCEPT !.result = Returned(FALSE, FALSE, FALSE, CreateError(a.err))]
    ELSE [p EXCEPT !.identity = CreatedName(o.identity, a.droplet.ID),
                   !.result = Returned(FALSE, FALSE, TRUE, NoErr)]

CreateOutcomes(isDroplet) ==
    IF ~isDroplet THEN {[Cur EXCEPT !.result = Returned(FALSE, FALSE, FALSE, New(errNotDroplet))]}
    ELSE LET o == [Cur EXCEPT !.conditions = CreateBegun(conditions)]
             req == GenerateDroplet(CreateName(identity), forProvider)
         IN {CreateCall(o, req, a) : a \in CreateAnswers(req)}

----------------------------------------------------------------------------
(* Update *)

\* Mutant: Update rejects a record of the wrong kind, as the other operations do.
UpdateOutcomesChecked(isDroplet) ==
    IF ~isDroplet THEN {[Cur EXCEPT !.result = Returned(FALSE, FALSE, FALSE, New(errNotDroplet))]}
    ELSE {[Cur EXCEPT !.result = Returned(FALSE, FALSE, FALSE, NoErr)]}

UpdateOutcomes(isDroplet) == {[Cur EXCEPT !.result = Returned(FALSE, FALSE, FALSE, NoErr)]}

----------------------------------------------------------------------------
(* Delete *)

\* Mutant: the not-found answer is wrapped like any other error.
DeleteErrorKeepsNotFound(err, response) == Wrap(err, errDropletDeleteFailed)

DeleteError(err, response) == Wrap(IgnoreNotFound(err, response), errDropletDeleteFailed)

\* Mutant: the ID is parsed from the external name.
DeleteIDFromName(o) == ExternalID(o.identity)

\* The ID handed to the provider's delete.
DeleteID(o) == o.atProvider.ID

\* Mutant: a failed delete is tried once more.
DeleteCallRetries(o, id, a) ==
    [o EXCEPT !.calls.api = IF DeleteError(a.err, a.response) # NoErr
                            THEN <<ApiCall("delete", id, <<>>, a.response),
                                   ApiCall("delete", id, <<>>, a.response)>>
                            ELSE <<ApiCall("delete", id, <<>>, a.response)>>,
              !.droplets = a.droplets,
              !.result = Returned(FALSE, FALSE, FALSE, DeleteError(a.err, a.response))]

DeleteCall(o, id, a) ==
    [o EXCEPT !.calls.api = <<ApiCall("delete", id, <<>>, a.response)>>,
              !.droplets = a.droplets,
              !.result = Returned(FALSE, FALSE, FALSE, DeleteError(a.err, a.response))]

\* Mutant: the condition is set before the kind of the record is looked at.
DeleteOutcomesMarksFirst(isDroplet) ==
    LET o == [Cur EXCEPT !.conditions = SetConditions(conditions, Deleting)] IN
    IF ~isDroplet THEN {[o EXCEPT !.result = Returned(FALSE, FALSE, FALSE, New(errNotDroplet))]}
    ELSE {DeleteCall(o, DeleteID(o), a) : a \in DeleteAnswers(DeleteID(o))}

DeleteOutcomes(isDroplet) ==
    IF ~isDroplet THEN {[Cur EXCEPT !.result = Returned(FALSE, FALSE, FALSE, New(errNotDroplet))]}
    ELSE LET o == [Cur EXCEPT !.conditions = SetConditions(conditions, Deleting)]
         IN {DeleteCall(o, DeleteID(o), a) : a \in DeleteAnswers(DeleteID(o))}

----------------------------------------------------------------------------
(* The operations as steps *)

Ran(op, isDroplet, o) ==
    /\ identity' = o.identity
    /\ forProvider' = o.forProvider
    /\ atProvider' = o.atProvider
    /\ conditions' = o.conditions
    /\ stored' = o.stored
    /\ droplets' = o.droplets
    /\ nextID' = o.nextID
    /\ result' = o.result
    /\ calls' = o.calls
    /\ lastOp' = [op |-> op, isDroplet |-> isDroplet, again |-> lastOp.op = op]
    /\ UNCHANGED <<client, other>>

\* do.GetAuthInfo: the token, or an error when the credentials cannot be read.
GetAuthInfoAnswers == {NoErr, New("cannot get credentials")}

\* Mutant: the connector keeps one client and hands it to every record.
ConnectShared(err) ==
    /\ client' = IF err # NoErr THEN NoClient ELSE BoundClient
    /\ result' = Returned(FALSE, FALSE, FALSE, err)
    /\ calls' = NoCalls
    /\ lastOp' = [op |-> "Connect", isDroplet |-> TRUE, again |-> lastOp.op = "Connect"]
    /\ other' = IF other = NoRecord THEN other ELSE [other EXCEPT !.client = client']
    /\ UNCHANGED <<identity, forProvider, atProvider, conditions, stored, droplets, nextID>>

\* Connect makes a new client for the record it is called for.
ConnectWith(err) ==
    /\ client' = IF err # NoErr THEN NoClient ELSE BoundClient
    /\ result' = Returned(FALSE, FALSE, FALSE, err)
    /\ calls' = NoCalls
    /\ lastOp' = [op |-> "Connect", isDroplet |-> TRUE, again |-> lastOp.op = "Connect"]
    /\ UNCHANGED <<identity, forProvider, atProvider, conditions, stored, droplets, nextID,
                   other>>

ObserveWith(isDroplet) ==
    /\ client # NoClient
    /\ \E o \in ObserveOutcomes(isDroplet) : Ran("Observe", isDroplet, o)

CreateWith(isDroplet) ==
    /\ client # NoClient
    /\ \E o \in CreateOutcomes(isDroplet) : Ran("Create", isDroplet, o)

UpdateWith(isDroplet) ==
    /\ client # NoClient
    /\ \E o \in UpdateOutcomes(isDroplet) : Ran("Update", isDroplet, o)

DeleteWith(isDroplet) ==
    /\ client # NoClient
    /\ \E o \in DeleteOutcomes(isDroplet) : Ran("Delete", isDroplet, o)

----------------------------------------------------------------------------
(* The provider's own steps: a droplet boots, is powered off or on *)

StatusSteps == {<<StatusNew, StatusActive>>, <<StatusActive, StatusOff>>,
                <<StatusOff, StatusActive>>}

DropletChanges ==
    /\ \E id \in Live, t \in StatusSteps :
         /\ droplets[id].Status = t[1]
         /\ droplets' = [droplets EXCEPT ![id].Status = t[2]]
    /\ UNCHANGED <<identity, forProvider, atProvider, conditions, stored, nextID,
                   client, lastOp, result, calls, pass, other>>

----------------------------------------------------------------------------
(* Any sequence of calls *)

Init ==
    /\ identity \in InitialNames
    /\ forProvider \in {[Region |-> "nyc1", VPCUUID |-> v] : v \in {Unset, UserVPC}}
    /\ atProvider = NoObservation
    /\ conditions = [Ready |-> NoCondition, Synced |-> NoCondition]
    /\ stored = [identity |-> identity, forProvider |-> forProvider]
    /\ droplets = [id \in 1..MaxID |-> NoDroplet]
    /\ nextID = 1
    /\ client = NoClient
    /\ lastOp = [op |-> "none", isDroplet |-> TRUE, again |-> FALSE]
    /\ result = Zero
    /\ calls = NoCalls
    /\ pass = [pc |-> "idle", wasDeleted |-> FALSE, saved |-> conditions]
    /\ other = NoRecord

Connect == (\E err \in GetAuthInfoAnswers : ConnectWith(err)) /\ UNCHANGED pass

Observe == (\E isDroplet \in BOOLEAN : ObserveWith(isDroplet)) /\ UNCHANGED pass

Create == (\E isDroplet \in BOOLEAN : CreateWith(isDroplet)) /\ UNCHANGED pass

Update == (\E isDroplet \in BOOLEAN : UpdateWith(isDroplet)) /\ UNCHANGED pass

Delete == (\E isDroplet \in BOOLEAN : DeleteWith(isDroplet)) /\ UNCHANGED pass

Next == Connect \/ Observe \/ Create \/ Update \/ Delete \/ DropletChanges

Spec == Init /\ [][Next]_vars

----------------------------------------------------------------------------
(* The engine: one pass at a time, Connect, Observe, then what Observe calls for *)

EngineConnect ==
    /\ pass.pc = "idle"
    /\ \E err \in GetAuthInfoAnswers :
         /\ ConnectWith(err)
         /\ pass' = [pass EXCEPT !.pc = IF err # NoErr THEN "idle" ELSE "connected"]

EngineObserve ==
    /\ pass.pc = "connected"
    /\ ObserveWith(TRUE)
    /\ pass' = [pass EXCEPT !.pc = IF result'.err # NoErr THEN "idle" ELSE "observed",
                             !.saved = IF result'.err # NoErr THEN conditions' ELSE @]

EngineCreate ==
    /\ pass.pc = "observed"
    /\ ~pass.wasDeleted
    /\ ~result.exists
    /\ CreateWith(TRUE)
    /\ pass' = [pass EXCEPT !.pc = "idle", !.saved = conditions']

EngineDelete ==
    /\ pass.pc = "observed"
    /\ pass.wasDeleted
    /\ result.exists
    /\ DeleteWith(TRUE)
    /\ pass' = [pass EXCEPT !.pc = "idle", !.saved = conditions']

\* Nothing to do: the droplet exists and is up to date, or is gone as asked.
\* Every pass ends with the engine saving the record's status.
EngineDone ==
    /\ pass.pc = "observed"
    /\ result.exists = ~pass.wasDeleted
    /\ result.exists => result.upToDate
    /\ pass' = [pass EXCEPT !.pc = "idle", !.saved = conditions]
    /\ UNCHANGED <<identity, forProvider, atProvider, conditions, stored, droplets, nextID,
                   client, lastOp, result, calls, other>>

\* The user deletes the record.
UserDeletes ==
    /\ pass.pc = "idle"
    /\ ~pass.wasDeleted
    /\ pass' = [pass EXCEPT !.wasDeleted = TRUE]
    /\ UNCHANGED <<identity, forProvider, atProvider, conditions, stored, droplets, nextID,
                   client, lastOp, result, calls, other>>

EngineNext ==
    \/ EngineConnect \/ EngineObserve \/ EngineCreate \/ EngineDelete \/ EngineDone
    \/ UserDeletes \/ DropletChanges

EngineSpec == Init /\ [][EngineNext]_vars

----------------------------------------------------------------------------
(* The engine keeps running passes for a record that is not deleted, the calls
   succeed in the end, and a droplet that has booted stays up *)

DropletBoots ==
    /\ \E id \in Live :
         /\ droplets[id].Status = StatusNew
         /\ droplets' = [droplets EXCEPT ![id].Status = StatusActive]
    /\ UNCHANGED <<identity, forProvider, atProvider, conditions, stored, nextID,
                   client, lastOp, result, calls, pass, other>>

LiveNext == EngineConnect \/ EngineObserve \/ EngineCreate \/ EngineDone \/ DropletBoots

LiveSpec ==
    /\ Init
    /\ [][LiveNext]_vars
    /\ WF_vars(EngineDone)
    /\ WF_vars(DropletBoots)
    /\ SF_vars(EngineConnect /\ result'.err = NoErr)
    /\ SF_vars(EngineObserve /\ result'.err = NoErr)
    /\ SF_vars(EngineCreate /\ nextID' # nextID)

----------------------------------------------------------------------------
(* The engine's process may stop while Create waits for the provider: the
   record in memory is lost and the next pass reads the record from the store *)

EngineCreateBegins ==
    /\ pass.pc = "observed"
    /\ ~pass.wasDeleted
    /\ ~result.exists
    /\ client # NoClient
    /\ conditions' = CreateBegun(conditions)
    /\ pass' = [pass EXCEPT !.pc = "creating"]
    /\ UNCHANGED <<identity, forProvider, atProvider, stored, droplets, nextID,
                   client, lastOp, result, calls, other>>

EngineCreateReturns ==
    /\ pass.pc = "creating"
    /\ CreateWith(TRUE)
    /\ pass' = [pass EXCEPT !.pc = "idle", !.saved = conditions']

\* The provider may or may not have made the droplet by then.
EngineInterrupted ==
    /\ pass.pc = "creating"
    /\ \E a \in CreateAnswers(GenerateDroplet(CreateName(identity), forProvider)) :
         /\ droplets' = a.droplets
         /\ nextID' = a.nextID
    /\ conditions' = pass.saved
    /\ client' = NoClient
    /\ lastOp' = [op |-> "Interrupted", isDroplet |-> TRUE, again |-> FALSE]
    /\ result' = Zero
    /\ calls' = NoCalls
    /\ pass' = [pass EXCEPT !.pc = "idle"]
    /\ UNCHANGED <<identity, forProvider, atProvider, stored, other>>

CrashNext ==
    \/ EngineConnect \/ EngineObserve \/ EngineCreateBegins \/ EngineCreateReturns
    \/ EngineInterrupted \/ EngineDone \/ DropletChanges

CrashSpec == Init /\ [][CrashNext]_vars

----------------------------------------------------------------------------
(* Two records in one provider account: the engine runs one pass at a time for
   each, and the passes of the two interleave operation by operation *)

\* The record being worked on, with its client and its pass.
Held ==
    [identity |-> identity, forProvider |-> forProvider, atProvider |-> atProvider,
     conditions |-> conditions, stored |-> stored, client |-> client, lastOp |-> lastOp,
     result |-> result, calls |-> calls, pass |-> pass]

\* A record as the user made it.
NewRecord(name, vpc) ==
    [identity |-> name, forProvider |-> [Region |-> "nyc1", VPCUUID |-> vpc],
     atProvider |-> NoObservation,
     conditions |-> [Ready |-> NoCondition, Synced |-> NoCondition],
     stored |-> [identity |-> name, forProvider |-> [Region |-> "nyc1", VPCUUID |-> vpc]],
     client |-> NoClient,
     lastOp |-> [op |-> "none", isDroplet |-> TRUE, again |-> FALSE],
     result |-> Zero, calls |-> NoCalls,
     pass |-> [pc |-> "idle", wasDeleted |-> FALSE,
               saved |-> [Ready |-> NoCondition, Synced |-> NoCondition]]]

\* The names the user gave the two records: none, or a droplet's ID to adopt.
TwoNames == {<<>>, <<"0", "1">>}

TwoInit ==
    /\ \E r \in {NewRecord(name, UserVPC) : name \in TwoNames} :
         /\ identity = r.identity
         /\ forProvider = r.forProvider
         /\ atProvider = r.atProvider
         /\ conditions = r.conditions
         /\ stored = r.stored
         /\ client = r.client
         /\ lastOp = r.lastOp
         /\ result = r.result
         /\ calls = r.calls
         /\ pass = r.pass
    /\ other \in {NewRecord(name, UserVPC) : name \in TwoNames}
    /\ droplets = [id \in 1..MaxID |-> NoDroplet]
    /\ nextID = 1

\* The next operation to run is one of the other record's pass.
Dispatch ==
    /\ other' = Held
    /\ identity' = other.identity
    /\ forProvider' = other.forProvider
    /\ atProvider' = other.atProvider
    /\ conditions' = other.conditions
    /\ stored' = other.stored
    /\ client' = other.client
    /\ lastOp' = other.lastOp
    /\ result' = other.result
    /\ calls' = other.calls
    /\ pass' = other.pass
    /\ UNCHANGED <<droplets, nextID>>

TwoNext ==
    \/ EngineConnect \/ EngineObserve \/ EngineCreate \/ EngineDelete \/ EngineDone
    \/ UserDeletes \/ Dispatch

TwoSpec == TwoInit /\ [][TwoNext]_vars

----------------------------------------------------------------------------
(* Claims *)

\* C1: a Delete whose provider call answers not-found returns no error, and a
\* Delete whose provider call fails in any other way returns the delete error.
DeleteNotFoundIsSuccess ==
    (lastOp.op = "Delete" /\ lastOp.isDroplet) =>
        /\ Len(calls.api) = 1
        /\ calls.api[1].response = StatusNotFound => result.err = NoErr
        /\ calls.api[1].response \in {NilResponse, StatusServerError} =>
               result.err # NoErr /\ result.err.msg = errDropletDeleteFailed

\* The second of two Deletes in a row met a droplet that was observed and is gone.
SecondDeleteMetAbsent ==
    /\ lastOp = [op |-> "Delete", isDroplet |-> TRUE, again |-> TRUE]
    /\ atProvider.ID >= 1
    /\ ~IsLive(atProvider.ID)
    /\ calls.api[1].response = StatusNotFound
    /\ result.err = NoErr

FirstCreateOverwritesName ==
    [][(lastOp'.op = "Create" /\ lastOp'.isDroplet /\ nextID = 1 /\ nextID' = 2
          /\ result'.err = NoErr /\ (identity = <<>> \/ ~AtoiOk(identity)) /\ Create) =>
           identity' = Itoa(droplets'[1].ID)]_vars

\* C5: a Create whose provider call returned an error or no droplet returns
\* the create error, also when the call returned no droplet and no error.
CreateFailureIsError ==
    [][(lastOp'.op = "Create" /\ lastOp'.isDroplet /\ nextID' = nextID /\ Create) =>
           /\ result'.err # NoErr
           /\ result'.err.msg = errDropletCreateFailed
           /\ ~result'.nameAssigned]_vars

\* C4: with the engine running one pass at a time and creating only after
\* Observe said the droplet does not exist, a record never has two live droplets.
AtMostOneDroplet == Cardinality(Live) <= 1

\* C6: once the external name parses as a number, no step changes it.
MonotonicIdentity == [][AtoiOk(identity) => identity' = identity]_vars

\* The name became the first droplet's ID, and a later Create made another droplet.
CreatedAgainWithNumericName ==
    /\ identity = Itoa(1)
    /\ lastOp.op = "Create" /\ lastOp.isDroplet
    /\ result.nameAssigned
    /\ nextID = 3

\* C7: an Observe that fetches a droplet sets Ready to Creating when its status
\* is new, to Available when it is active, and leaves every condition as it was
\* for any other status.
StatusToCondition ==
    [][(lastOp'.op = "Observe" /\ lastOp'.isDroplet /\ result'.exists /\ Observe) =>
           LET status == droplets[ExternalID(identity)].Status IN
           /\ status = StatusNew => conditions' = [conditions EXCEPT !.Ready = "Creating"]
           /\ status = StatusActive => conditions' = [conditions EXCEPT !.Ready = "Available"]
           /\ status \notin {StatusNew, StatusActive} => conditions' = conditions]_vars

\* A droplet seen active and then off: the condition is still Available.
OffStaysAvailable ==
    /\ lastOp.op = "Observe" /\ lastOp.isDroplet
    /\ result.exists
    /\ atProvider.Status = StatusOff
    /\ conditions.Ready = "Available"

\* C8: an Observe with a non-empty external name whose get answers not-found
\* returns exists=false and no error, changes neither the observation, the
\* conditions nor the parameters, and does not call the store.
ObserveNotFound ==
    [][(lastOp'.op = "Observe" /\ lastOp'.isDroplet /\ identity # <<>>
          /\ Len(calls'.api) = 1 /\ calls'.api[1].response = StatusNotFound /\ Observe) =>
           /\ result' = Returned(FALSE, FALSE, FALSE, NoErr)
           /\ UNCHANGED <<atProvider, conditions, forProvider, stored>>
           /\ calls'.kube = 0]_vars

\* An Observe met not-found for a droplet that had been observed before.
ObservedThenNotFound ==
    /\ lastOp.op = "Observe" /\ lastOp.isDroplet
    /\ identity # <<>>
    /\ calls.api # <<>> /\ calls.api[1].response = StatusNotFound
    /\ atProvider.ID >= 1
    /\ conditions.Ready # NoCondition

\* C9: an Observe of a record with an empty external name returns exists=false
\* and no error, calls neither the provider nor the store, and leaves the
\* record as it was.
ObserveEmptyName ==
    [][(lastOp'.op = "Observe" /\ lastOp'.isDroplet /\ identity = <<>> /\ Observe) =>
           /\ result' = Returned(FALSE, FALSE, FALSE, NoErr)
           /\ calls' = NoCalls
           /\ UNCHANGED <<identity, forProvider, atProvider, conditions, stored, droplets>>]_vars

\* An Observe of a record with no external name, after a Create that failed.
ObservedEmptyName ==
    /\ lastOp.op = "Observe" /\ lastOp.isDroplet
    /\ identity = <<>>
    /\ conditions.Ready = "Creating"
    /\ ~result.exists /\ result.err = NoErr

\* C10: Update returns success for any record, of the wrong kind too, calls
\* neither the provider nor the store, and leaves the record as it was.
UpdateDoesNothing ==
    [][(lastOp'.op = "Update" /\ Update) =>
           /\ result' = Returned(FALSE, FALSE, FALSE, NoErr)
           /\ calls' = NoCalls
           /\ UNCHANGED <<identity, forProvider, atProvider, conditions, stored,
                          droplets, nextID>>]_vars

\* An Update given a record of the wrong kind, after the record was observed.
UpdatedWrongKind ==
    /\ lastOp.op = "Update" /\ ~lastOp.isDroplet
    /\ result.err = NoErr
    /\ atProvider.ID >= 1

\* C11: whenever Observe returns exists=true it returns upToDate=true.
ExistsIsUpToDate ==
    (lastOp.op = "Observe" /\ result.exists) => result.upToDate

\* An Observe found a droplet that is powered off.
ObservedOffDroplet ==
    /\ lastOp.op = "Observe" /\ lastOp.isDroplet
    /\ result.exists
    /\ atProvider.Status = StatusOff

\* C12: an Observe whose get fails with anything but not-found returns the get
\* error, does not report exists=true, changes neither the parameters, the
\* observation nor the conditions, and does not call the store.
ObserveGetFailure ==
    [][(lastOp'.op = "Observe" /\ lastOp'.isDroplet /\ Len(calls'.api) = 1
          /\ calls'.api[1].response \in {NilResponse, StatusServerError} /\ Observe) =>
           /\ result'.err # NoErr /\ result'.err.msg = errGetDroplet
           /\ ~result'.exists
           /\ UNCHANGED <<forProvider, atProvider, conditions, stored>>
           /\ calls'.kube = 0]_vars

\* An Observe failed on a droplet that had been observed before.
ObservedThenGetFailed ==
    /\ lastOp.op = "Observe" /\ lastOp.isDroplet
    /\ calls.api # <<>> /\ calls.api[1].response \in {NilResponse, StatusServerError}
    /\ atProvider.ID >= 1
    /\ conditions.Ready = "Available"
    /\ result.err.msg = errGetDroplet

\* C14: Observe, Create and Delete make at most one provider call each, a get,
\* a create and a delete; Update and Connect make none; a failed call is not
\* made again.
OneCallPerOperation ==
    /\ Len(calls.api) <= 1
    /\ lastOp.op \in {"none", "Connect", "Update"} => calls.api = <<>>
    /\ calls.api # <<>> =>
           calls.api[1].method = (CASE lastOp.op = "Observe" -> "get"
                                    [] lastOp.op = "Create" -> "create"
                                    [] lastOp.op = "Delete" -> "delete"
                                    [] OTHER -> "none")

\* A Delete whose provider call failed.
DeleteFailedOnce ==
    /\ lastOp.op = "Delete" /\ lastOp.isDroplet
    /\ result.err # NoErr
    /\ Len(calls.api) = 1
    /\ IsLive(atProvider.ID)

\* C15: after a fetch that found the droplet, Observe saves the record exactly
\* when late initialization changed the parameters; when the save fails it
\* returns the update error, does not report exists=true and leaves the
\* observation and the conditions as they were, so the save comes before they
\* are written.
LateInitSaves ==
    [][(lastOp'.op = "Observe" /\ lastOp'.isDroplet /\ Len(calls'.api) = 1
          /\ calls'.api[1].response = StatusOK /\ Observe) =>
           LET merged == LateInitializeSpec(forProvider, droplets[ExternalID(identity)]) IN
           /\ forProvider' = merged
           /\ calls'.kube = (IF merged # forProvider THEN 1 ELSE 0)
           /\ calls'.kube = 0 => stored' = stored /\ result'.err = NoErr
           /\ result'.err = NoErr =>
                  /\ result'.exists
                  /\ calls'.kube = 1 => stored' = [identity |-> identity, forProvider |-> merged]
           /\ result'.err # NoErr =>
                  /\ result'.err.msg = errDropletUpdate
                  /\ ~result'.exists
                  /\ UNCHANGED <<atProvider, conditions, stored>>]_vars

\* The save failed: the parameters are merged in memory, nothing else has changed.
LateInitSaveFailed ==
    /\ lastOp.op = "Observe" /\ lastOp.isDroplet
    /\ calls.kube = 1
    /\ result.err.msg = errDropletUpdate
    /\ forProvider.VPCUUID = DefaultVPC
    /\ stored.forProvider.VPCUUID = Unset
    /\ atProvider = NoObservation

\* C17: Delete sets Ready to Deleting and hands the observation's ID to the
\* provider's delete; right after an Observe that reported exists=true for a
\* record whose external name is the number N, that ID is N.
DeleteUsesObservedID ==
    [][(lastOp'.op = "Delete" /\ lastOp'.isDroplet /\ Delete) =>
           /\ Len(calls'.api) = 1
           /\ calls'.api[1].id = atProvider.ID
           /\ conditions'.Ready = "Deleting"
           /\ (lastOp.op = "Observe" /\ result.exists /\ AtoiOk(identity)) =>
                  calls'.api[1].id = AtoiVal(identity)]_vars

\* A Delete right after the droplet was observed removed the record's own droplet.
DeletedOwnDroplet ==
    /\ lastOp = [op |-> "Delete", isDroplet |-> TRUE, again |-> FALSE]
    /\ AtoiOk(identity)
    /\ calls.api[1].id = AtoiVal(identity)
    /\ calls.api[1].id >= 1
    /\ calls.api[1].response = StatusNoContent

\* C18: Observe, Create and Delete given a record of the wrong kind return an
\* error, call neither the provider nor the store, and change nothing.
WrongKindRejected ==
    [][(lastOp'.op \in {"Observe", "Create", "Delete"} /\ ~lastOp'.isDroplet
          /\ (Observe \/ Create \/ Delete)) =>
           /\ result' = Returned(FALSE, FALSE, FALSE, New(errNotDroplet))
           /\ calls' = NoCalls
           /\ UNCHANGED <<identity, forProvider, atProvider, conditions, stored,
                          droplets, nextID>>]_vars

\* A Delete given a record of the wrong kind while the record's droplet is live.
DeleteRejectedWrongKind ==
    /\ lastOp.op = "Delete" /\ ~lastOp.isDroplet
    /\ result.err.msg = errNotDroplet
    /\ IsLive(atProvider.ID)
    /\ conditions.Ready = "Available"

HandedOff ==
    /\ lastOp.op = "Create"
    /\ result.nameAssigned /\ result.err = NoErr
    /\ AtoiOk(identity) /\ identity = Itoa(AtoiVal(identity))
    /\ IsLive(AtoiVal(identity))

ObservedAvailable ==
    /\ lastOp.op = "Observe"
    /\ result.exists /\ result.upToDate /\ result.err = NoErr
    /\ conditions.Ready = "Available"
    /\ identity = Itoa(atProvider.ID)
    /\ atProvider.Status = StatusActive

EndToEnd ==
    /\ (identity = <<>>) ~> HandedOff
    /\ HandedOff ~> ObservedAvailable

\* The record that started without a name has its one droplet, observed active.
EndToEndReached ==
    /\ ObservedAvailable
    /\ identity = Itoa(1)
    /\ nextID = 2

\* C16: Create sets Ready to Creating before it calls the provider, so that
\* however a Create on a record of the right kind ends (success, provider
\* error, interruption during the call) Ready is Creating afterwards; when it
\* made no droplet known to the record, the external name and the observation
\* are as before.
CreatingHoweverCreateEnds ==
    [][(pass.pc = "creating" /\ pass'.pc = "idle") =>
           /\ conditions'.Ready = "Creating"
           /\ result'.err # NoErr \/ lastOp'.op = "Interrupted" =>
                  UNCHANGED <<identity, atProvider>>]_vars

\* C16, amended: however a Create on a record of the right kind returns
\* (success or error) Ready is Creating afterwards, and after an error the
\* external name and the observation are as before; after an interruption
\* during the call the record has the conditions the store held.
CreatingWhenCreateReturns ==
    [][(pass.pc = "creating" /\ pass'.pc = "idle") =>
           IF lastOp'.op = "Interrupted"
           THEN conditions' = pass.saved /\ UNCHANGED <<identity, atProvider>>
           ELSE /\ lastOp'.op = "Create"
                /\ conditions'.Ready = "Creating"
                /\ result'.err # NoErr => UNCHANGED <<identity, atProvider>>]_vars

\* Create was interrupted after the provider had made the droplet: the record
\* shows no sign of it.
CreateInterrupted ==
    /\ lastOp.op = "Interrupted"
    /\ Live # {}
    /\ conditions.Ready = NoCondition
    /\ identity = <<>>

\* The droplets a record names: by its external name and by its observation.
Named(name, observation) == {ExternalID(name), observation.ID} \cap (1..MaxID)

\* The engine turned to the other record: the two change places as they are.
Dispatched == other' = Held /\ Held' = other /\ UNCHANGED <<droplets, nextID>>

\* C20: when the passes of two records interleave, each record with its own
\* client, an operation on one record changes no field of the other, and each
\* record ends as if its passes had run alone: the droplet a record's own
\* Create made and named is not changed by an operation on the other record.
CrossRecordIndependence ==
    [][\/ Dispatched
       \/ /\ other' = other
          /\ \A id \in 1..MaxID :
               IsLive(id) /\ other.identity = Itoa(id) /\ identity # Itoa(id) =>
                   droplets'[id] = droplets[id]]_vars

\* C20, amended: an operation on one record changes no field of the other
\* record, of its client or of its pass, and changes no droplet but those the
\* record itself names and the one it creates. (Two records that name the
\* same droplet meet there.)
OwnRecordOwnDroplets ==
    [][\/ Dispatched
       \/ /\ other' = other
          /\ \A id \in 1..MaxID :
               droplets'[id] # droplets[id] =>
                   id \in Named(identity, atProvider) \cup {nextID}]_vars

\* The passes of two records interleaved, and each record has its own droplet.
TwoPassesInterleaved ==
    /\ pass.pc = "observed"
    /\ other.pass.pc = "connected"
    /\ identity = Itoa(2)
    /\ other.identity = Itoa(1)
    /\ IsLive(1) /\ IsLive(2)

====
